---- MODULE Spec2Model ----
(***************************************************************************)
(* The food / meal-entry data-access layer of calorie_count:               *)
(*   src/calorie_count/src/DB/food_db.py        Food, FoodDB               *)
(*   src/calorie_count/src/DB/meal_entry_db.py  MealEntry, MealEntryDB     *)
(*   src/calorie_count/src/DB/models.py         the two tables             *)
(*                                                                         *)
(* The database file is the state: the `food` table and the                *)
(* `meal_entries` table, each a sequence of rows in storage (rowid) order. *)
(* Every public method runs in its own unit of work and commits before it  *)
(* returns, so one method call is one step.  A MealEntry object lives in   *)
(* memory between its construction and add_meal_entry; `entry` holds it.   *)
(* The external catalog (src/calorie_count/src/DB/external/client.py) is a  *)
(* database file of its own with one table, `foods`.                       *)
(* `sess` holds, for one object of each class, its _session attribute, the *)
(* sessions it has acquired and the with-blocks it is inside.              *)
(* `config` is the settings file config.ini and `atexit` the handlers that  *)
(* set_db_path_test has registered.  Where the database path matters,      *)
(* `stores` holds the two tables of every database file, `mdbs` the paths  *)
(* of the MealEntryDB objects created and `FOOD_DB_PATH` the class         *)
(* attribute MealEntry.FOOD_DB_PATH (<<>> for None).                       *)
(*                                                                         *)
(* Numbers: the columns are floats.  Values here are integers chosen so    *)
(* that every ratio that occurs (1/2, 1, 2) divides them exactly, as it    *)
(* does in binary floating point.  A Python None / omitted argument is     *)
(* None for numbers, "" for strings and <<>> for an object.                *)
(***************************************************************************)
EXTENDS Integers, Sequences, FiniteSets, TLC

VARIABLES food, meal_entries, clock, entry, ret, foods, sess, config, atexit,
          stores, FOOD_DB_PATH, mdbs

vars == <<food, meal_entries, clock, entry, ret, foods, sess, config, atexit,
          stores, FOOD_DB_PATH, mdbs>>

(* ---------------------------- bounds ----------------------------------- *)

\* readings of dt.now() range over 0..MaxClock
MaxClock == 1
\* rows the meal_entries table may hold
MaxEntries == 2
\* calendar days are 1..MaxDate; the current day is the last one
MaxDate == 1

(* ---------------------------- values ----------------------------------- *)

None == -1

Names == {"apple", "banana"}

\* a name argument: a food name, or "" (also standing for an omitted name)
NameArgs == Names \cup {""}

Dates == 1..MaxDate

Today == MaxDate

\* the `date` argument of MealEntry: an earlier day, or omitted (today)
DateArgs == (1..(MaxDate - 1)) \cup {None}

\* (portion, proteins, fats, carbs, sugar, sodium, water) a caller may pass
Apple100 == [portion |-> 100, proteins |-> 4,  fats |-> 8,  carbs |-> 12,
             sugar |-> 16, sodium |-> 20, water |-> 24]

Apple200 == [portion |-> 200, proteins |-> 40, fats |-> 44, carbs |-> 48,
             sugar |-> 52, sodium |-> None, water |-> 60]

\* the (name, nutrients) pairs a caller may build a Food from: "apple" comes
\* with two nutrient records, so that an update changes every column
FoodInputs ==
    { <<"apple", Apple100>>, <<"apple", Apple200>>,
      <<"banana", Apple100>>, <<"", Apple100>> }

PortionArgs == {None, 200}

\* Python truthiness of a number-or-None
Falsy(x) == x = None \/ x = 0

\* `x or 0`
OrZero(x) == IF Falsy(x) THEN 0 ELSE x

\* dt.now().isoformat() at clock reading t
isoformat(t) == ToString(t)

(* ---------------------------- Food ------------------------------------- *)

\* Food(...) followed by Food.__post_init__, constructed at clock reading now
Food(name, portion, proteins, fats, carbs, sugar, sodium, water, now) ==
    [name     |-> name,
     portion  |-> OrZero(portion),
     proteins |-> proteins,
     fats     |-> fats,
     carbs    |-> carbs,
     sugar    |-> OrZero(sugar),
     sodium   |-> OrZero(sodium),
     water    |-> OrZero(water),
     id       |-> IF name # "" THEN name ELSE isoformat(now)]

\* Food.cals
cals(f) == f.proteins * 4 + f.carbs * 4 + f.fats * 9

\* from_model with the sugar and sodium columns read into each other's field
from_model_swapped(m, now) ==
    Food(m.name, OrZero(m.portion), OrZero(m.protein), OrZero(m.fats),
         OrZero(m.carbs), OrZero(m.sodium), OrZero(m.sugar), OrZero(m.water),
         now)

\* Food.from_model
from_model(m, now) ==
    Food(m.name, OrZero(m.portion), OrZero(m.protein), OrZero(m.fats),
         OrZero(m.carbs), OrZero(m.sugar), OrZero(m.sodium), OrZero(m.water),
         now)

\* Food.to_model
to_model(f) ==
    [name    |-> f.name,
     portion |-> f.portion,
     protein |-> f.proteins,
     fats    |-> f.fats,
     carbs   |-> f.carbs,
     sugar   |-> f.sugar,
     sodium  |-> f.sodium,
     water   |-> f.water,
     id      |-> f.id]

\* the Food objects a caller can construct at clock reading now
FoodArgs(now) ==
    { Food(x[1], x[2].portion, x[2].proteins, x[2].fats, x[2].carbs,
           x[2].sugar, x[2].sodium, x[2].water, now) : x \in FoodInputs }

\* the empty Food that a failed lookup returns
EmptyFood(now) == Food("", 0, 0, 0, 0, 0, 0, 0, now)

(* ---------------------------- FoodDB ----------------------------------- *)

\* indices of the rows of tbl whose column col equals v, in storage order
Matching(tbl, col, v) == { i \in 1..Len(tbl) : tbl[i][col] = v }

Min(S) == CHOOSE i \in S : \A j \in S : i <= j

\* FoodDB.get_all_foods
get_all_foods(tbl, now) ==
    LET named == SelectSeq(tbl, LAMBDA r : r.name # "")
    IN  [i \in 1..Len(named) |-> from_model(named[i], now)]

\* FoodDB.get_all_food_names
get_all_food_names(tbl) ==
    LET named == SelectSeq(tbl, LAMBDA r : r.name # "")
    IN  [i \in 1..Len(named) |-> named[i].name]

\* get_food_by_name that falls back to the first row when the name misses
get_food_by_name_or_first(tbl, name, now) ==
    LET hits == Matching(tbl, "name", name)
    IN  IF hits # {} THEN from_model(tbl[Min(hits)], now)
        ELSE IF tbl # <<>> THEN from_model(tbl[1], now)
        ELSE EmptyFood(now)

\* FoodDB.get_food_by_name
get_food_by_name(tbl, name, now) ==
    LET hits == Matching(tbl, "name", name)
    IN  IF hits # {} THEN from_model(tbl[Min(hits)], now)
        ELSE EmptyFood(now)

\* FoodDB.get_food_by_id
get_food_by_id(tbl, id_, now) ==
    LET hits == Matching(tbl, "id", id_)
    IN  IF hits # {} THEN from_model(tbl[Min(hits)], now)
        ELSE EmptyFood(now)

\* add_food that tests `if food_model:` only, overwriting without the flag
add_food_overwriting(tbl, f, update) ==
    LET hits == Matching(tbl, "name", f.name)
    IN  IF hits # {}
          THEN [did  |-> {"update"},
                food |-> [tbl EXCEPT ![Min(hits)] =
                            [to_model(f) EXCEPT !.name = tbl[Min(hits)].name]]]
        ELSE [did |-> {"insert"}, food |-> Append(tbl, to_model(f))]

\* FoodDB.add_food: the food table after the call (food) and the branch that
\* ran (did)
add_food(tbl, f, update) ==
    LET hits == Matching(tbl, "name", f.name)
    IN  IF hits # {} /\ update
          THEN [did  |-> {"update"},
                food |-> [tbl EXCEPT ![Min(hits)] =
                            [name    |-> @.name,
                             portion |-> f.portion,
                             protein |-> f.proteins,
                             fats    |-> f.fats,
                             carbs   |-> f.carbs,
                             sugar   |-> f.sugar,
                             sodium  |-> f.sodium,
                             water   |-> f.water,
                             id      |-> f.id]]]
        ELSE IF hits = {}
          THEN [did |-> {"insert"}, food |-> Append(tbl, to_model(f))]
        ELSE [did |-> {}, food |-> tbl]

\* FoodDB.remove, the join: names of the rows named in `names` whose id is the
\* meal_id of a stored meal entry
referenced_names(tbl, entries, names) ==
    { tbl[i].name : i \in { j \in 1..Len(tbl) :
          /\ \E k \in 1..Len(names) : names[k] = tbl[j].name
          /\ \E e \in 1..Len(entries) : entries[e].meal_id = tbl[j].id } }

\* FoodDB.remove: to_clear_name
to_clear_name(tbl, entries, names) ==
    { n \in referenced_names(tbl, entries, names) : n # "" }

\* FoodDB.remove: to_delete
to_delete(tbl, entries, names) ==
    { names[k] : k \in 1..Len(names) } \ to_clear_name(tbl, entries, names)

\* DELETE FROM food WHERE name IN (...), committed
DeleteNamed(tbl, del) == SelectSeq(tbl, LAMBDA r : r.name \notin del)

\* UPDATE food SET name = '' WHERE name IN (...): name is the primary key, so
\* the statement is rejected as a whole when it would leave two rows named ''
ClearRejected(tbl, clr) ==
    Cardinality({ i \in 1..Len(tbl) : tbl[i].name \in clr \cup {""} }) > 1

\* the rows named in clr get the empty name and keep everything else
ClearNamed(tbl, clr) ==
    [i \in 1..Len(tbl) |->
        IF tbl[i].name \in clr THEN [tbl[i] EXCEPT !.name = ""] ELSE tbl[i]]

\* FoodDB.remove(names); names is the list (a bare string is the one-element
\* list, None the empty one).  Gives the food table after the call, the
\* exception that left it, if any, and the statements that were committed.
remove(tbl, entries, names) ==
    IF names = <<>> THEN [exc |-> "none", food |-> tbl, did |-> {}]
    ELSE LET clr  == to_clear_name(tbl, entries, names)
             del  == to_delete(tbl, entries, names)
             tbl1 == IF del # {} THEN DeleteNamed(tbl, del) ELSE tbl
             did1 == IF del # {} THEN {"delete"} ELSE {}
         IN  IF clr = {} THEN [exc |-> "none", food |-> tbl1, did |-> did1]
             ELSE IF ClearRejected(tbl1, clr)
               THEN [exc |-> "IntegrityError", food |-> tbl1, did |-> did1]
             ELSE [exc |-> "none", food |-> ClearNamed(tbl1, clr),
                   did |-> did1 \cup {"clear"}]

(* ---------------------------- MealEntry -------------------------------- *)

\* the constructor without its assertion
name_or_food_unchecked(name, fd) == TRUE

\* `assert self.name or self.food`
name_or_food(name, fd) == name # "" \/ fd # <<>>

\* the lookup condition without `and not self.food`
by_name_ignoring_food(name, fd) == name # ""

\* `if self.name and not self.food`
by_name(name, fd) == name # "" /\ fd = <<>>

\* `if self.food and not self.name`
nameless(name, fd) == fd # <<>> /\ name = ""

\* `x *= ratio` with ratio = portion / food.portion
Times(x, portion, food_portion) == (x * portion) \div food_portion

\* the nutrient fields MealEntry.__post_init__ rescales
scaled(f, portion) ==
    [f EXCEPT !.carbs    = Times(@, portion, f.portion),
              !.fats     = Times(@, portion, f.portion),
              !.proteins = Times(@, portion, f.portion),
              !.sodium   = Times(@, portion, f.portion),
              !.sugar    = Times(@, portion, f.portion)]

\* MealEntry(name, portion, date, food, id) followed by __post_init__ against
\* the food table tbl.  exc: the exception raised, self: the object built,
\* food: the food table afterwards, path: the resolution paths that ran.
MealEntry(tbl, name, portion, date, fd, id, now) ==
    IF ~name_or_food(name, fd)
      THEN [exc |-> "AssertionError", self |-> <<>>, food |-> tbl, path |-> {}]
    ELSE
      LET fd1  == IF by_name(name, fd)
                    THEN <<get_food_by_name(tbl, name, now)>> ELSE fd
          reg  == nameless(name, fd1)
          tbl1 == IF reg THEN add_food(tbl, fd1[1], FALSE).food ELSE tbl
          path == (IF by_name(name, fd) THEN {"lookup"} ELSE {})
                  \cup (IF reg THEN {"register"} ELSE {})
          dt   == IF Falsy(date) THEN Today ELSE date
          obj(p, f) == <<[name |-> name, portion |-> p, date |-> dt,
                          food |-> f, id |-> id]>>
      IN  IF fd1 = <<>>
            THEN [exc |-> "AttributeError", self |-> <<>>, food |-> tbl1,
                  path |-> path]
          ELSE IF Falsy(portion)
            THEN [exc |-> "none", self |-> obj(fd1[1].portion, fd1[1]),
                  food |-> tbl1, path |-> path]
          ELSE IF portion # fd1[1].portion
            THEN IF fd1[1].portion = 0
                   THEN [exc |-> "ZeroDivisionError", self |-> <<>>,
                         food |-> tbl1, path |-> path]
                 ELSE [exc |-> "none",
                       self |-> obj(portion, scaled(fd1[1], portion)),
                       food |-> tbl1, path |-> path]
          ELSE [exc |-> "none", self |-> obj(portion, fd1[1]),
                food |-> tbl1, path |-> path]

\* MealEntry.from_model
MealEntry_from_model(tbl, model, f, now) ==
    MealEntry(tbl, f.name, model.portion, model.date, <<f>>, model.id, now)

(* ---------------------------- MealEntryDB ------------------------------ *)

\* MealEntryDB.add_meal_entry: id is the primary key of meal_entries
add_meal_entry(entries, e, now) ==
    LET row == [id      |-> isoformat(now),
                meal_id |-> e.food.id,
                portion |-> e.portion,
                date    |-> e.date]
    IN  IF Matching(entries, "id", row.id) # {}
          THEN [exc |-> "IntegrityError", meal_entries |-> entries]
        ELSE [exc |-> "none", meal_entries |-> Append(entries, row)]

\* the loop of get_entries_between_dates over the selected rows
RECURSIVE JoinFoods(_, _, _, _)
JoinFoods(rows, tbl, out, now) ==
    IF rows = <<>> THEN [exc |-> "none", val |-> out, food |-> tbl]
    ELSE LET meal == get_food_by_id(tbl, Head(rows).meal_id, now)
             r    == MealEntry_from_model(tbl, Head(rows), meal, now)
         IN  IF r.exc # "none"
               THEN [exc |-> r.exc, val |-> <<>>, food |-> r.food]
             ELSE JoinFoods(Tail(rows), r.food, out \o r.self, now)

\* MealEntryDB.get_entries_between_dates
get_entries_between_dates(tbl, entries, start_date, end_date, now) ==
    JoinFoods(SelectSeq(entries,
                        LAMBDA m : m.date >= start_date /\ m.date <= end_date),
              tbl, <<>>, now)

\* delete_entry that filters on the meal_id column instead of id
delete_entry_by_meal_id(entries, time_stamp) ==
    SelectSeq(entries, LAMBDA m : m.meal_id # time_stamp)

\* MealEntryDB.delete_entry
delete_entry(entries, time_stamp) ==
    SelectSeq(entries, LAMBDA m : m.id # time_stamp)

(* ---------------------------- the program ------------------------------ *)

\* ret records the call in progress until the caller takes its result: its
\* name, its arguments, the exception it raised ("none" when it returned),
\* the value it returned and the branches of it that ran
Ret(op, arg, exc, val, did) ==
    [op |-> op, arg |-> arg, exc |-> exc, val |-> val, did |-> did]

\* no call in progress
Idle == Ret("idle", <<>>, "none", <<>>, {})

\* the classes that hold a session, one object of each
Classes == {"FoodDB", "MealEntryDB", "ExternalFoodsDB"}

\* a constructed object: _session is None (0), no session acquired yet (the
\* sessions it acquires are numbered 1, 2, ... and are "open" or "closed"),
\* and no with-block entered
NoSessions ==
    [c \in Classes |-> [session |-> 0, acquired |-> <<>>, blocks |-> 0]]

\* config.ini without its two sections: a section is <<>> when the file
\* does not hold it, else the one-element sequence of its content
EmptyConfig == [THEME |-> <<>>, DB_PATH |-> <<>>]

\* the database files a path can name: the fallback of get_db_path, the
\* default of _set_db_path and a test database
DbPaths == {"Dark", "calorie_app.db", "test.db"}

\* every database file with its two tables empty
EmptyStores == [p \in DbPaths |-> [food |-> <<>>, meal_entries |-> <<>>]]

Init ==
    /\ food = <<>>
    /\ meal_entries = <<>>
    /\ clock = 0
    /\ entry = <<>>
    /\ ret = Idle
    /\ foods = <<>>
    /\ sess = NoSessions
    /\ config = EmptyConfig
    /\ atexit = {}
    /\ stores = EmptyStores
    /\ FOOD_DB_PATH = <<>>
    /\ mdbs = {}

\* the caller is ready for its next call
Ready == ret = Idle /\ entry = <<>>

\* time passes between two calls
Tick ==
    /\ Ready
    /\ clock < MaxClock
    /\ clock' = clock + 1
    /\ UNCHANGED <<food, meal_entries, entry, ret, foods, sess, config,
                   atexit, stores, FOOD_DB_PATH, mdbs>>

\* the caller takes the result of the call
Return ==
    /\ ret # Idle
    /\ entry = <<>>
    /\ ret' = Idle
    /\ UNCHANGED <<food, meal_entries, clock, entry, foods, sess, config,
                   atexit, stores, FOOD_DB_PATH, mdbs>>

\* fdb.add_food(f, update)
AddFood(f, update) ==
    /\ Ready
    /\ LET r == add_food(food, f, update)
       IN  /\ food' = r.food
           /\ ret' = Ret("add_food", <<f, update>>, "none", <<>>, r.did)
    /\ UNCHANGED <<meal_entries, clock, entry, foods, sess, config, atexit,
                   stores, FOOD_DB_PATH, mdbs>>

\* fdb.remove(names)
Remove(names) ==
    /\ Ready
    /\ LET r == remove(food, meal_entries, names)
       IN  /\ food' = r.food
           /\ ret' = Ret("remove", names, r.exc, <<>>, r.did)
    /\ UNCHANGED <<meal_entries, clock, entry, foods, sess, config, atexit,
                   stores, FOOD_DB_PATH, mdbs>>

\* fdb.get_all_foods()
GetAllFoods ==
    /\ Ready
    /\ ret' = Ret("get_all_foods", <<>>, "none", get_all_foods(food, clock), {})
    /\ UNCHANGED <<food, meal_entries, clock, entry, foods, sess, config,
                   atexit, stores, FOOD_DB_PATH, mdbs>>

\* fdb.get_all_food_names()
GetAllFoodNames ==
    /\ Ready
    /\ ret' = Ret("get_all_food_names", <<>>, "none",
                  get_all_food_names(food), {})
    /\ UNCHANGED <<food, meal_entries, clock, entry, foods, sess, config,
                   atexit, stores, FOOD_DB_PATH, mdbs>>

\* fdb.get_food_by_name(name)
GetFoodByName(name) ==
    /\ Ready
    /\ ret' = Ret("get_food_by_name", name, "none",
                  get_food_by_name(food, name, clock), {})
    /\ UNCHANGED <<food, meal_entries, clock, entry, foods, sess, config,
                   atexit, stores, FOOD_DB_PATH, mdbs>>

\* fdb.get_food_by_id(id_)
GetFoodById(id_) ==
    /\ Ready
    /\ ret' = Ret("get_food_by_id", id_, "none",
                  get_food_by_id(food, id_, clock), {})
    /\ UNCHANGED <<food, meal_entries, clock, entry, foods, sess, config,
                   atexit, stores, FOOD_DB_PATH, mdbs>>

\* entry = MealEntry(name=..., portion=..., date=..., food=...); the object
\* is handed to add_meal_entry, or dropped, before the next call
NewMealEntry(name, portion, date, fd) ==
    /\ Ready
    /\ LET r == MealEntry(food, name, portion, date, fd, "", clock)
       IN  /\ food' = r.food
           /\ entry' = r.self
           /\ ret' = Ret("MealEntry", <<name, portion, date, fd>>, r.exc,
                         <<>>, r.path)
    /\ UNCHANGED <<meal_entries, clock, foods, sess, config, atexit, stores,
                   FOOD_DB_PATH, mdbs>>

\* mdb.add_meal_entry(entry)
AddMealEntry ==
    /\ entry # <<>>
    /\ Len(meal_entries) < MaxEntries
    /\ LET r == add_meal_entry(meal_entries, entry[1], clock)
       IN  /\ meal_entries' = r.meal_entries
           /\ ret' = Ret("add_meal_entry", entry[1], r.exc, <<>>, {})
    /\ entry' = <<>>
    /\ UNCHANGED <<food, clock, foods, sess, config, atexit, stores,
                   FOOD_DB_PATH, mdbs>>

\* the MealEntry object goes out of scope without being stored
DropEntry ==
    /\ entry # <<>>
    /\ entry' = <<>>
    /\ ret' = Idle
    /\ UNCHANGED <<food, meal_entries, clock, foods, sess, config, atexit,
                   stores, FOOD_DB_PATH, mdbs>>

\* mdb.get_entries_between_dates(start_date, end_date)
GetEntriesBetweenDates(start_date, end_date) ==
    /\ Ready
    /\ LET r == get_entries_between_dates(food, meal_entries, start_date,
                                          end_date, clock)
       IN  /\ food' = r.food
           /\ ret' = Ret("get_entries_between_dates",
                         <<start_date, end_date>>, r.exc, r.val, {})
    /\ UNCHANGED <<meal_entries, clock, entry, foods, sess, config, atexit,
                   stores, FOOD_DB_PATH, mdbs>>

\* mdb.delete_entry(time_stamp); did tells whether the DELETE matched a row
DeleteEntry(time_stamp) ==
    /\ Ready
    /\ meal_entries' = delete_entry(meal_entries, time_stamp)
    /\ ret' = Ret("delete_entry", time_stamp, "none", <<>>,
                  IF Matching(meal_entries, "id", time_stamp) # {}
                    THEN {"delete"} ELSE {})
    /\ UNCHANGED <<food, clock, entry, foods, sess, config, atexit, stores,
                   FOOD_DB_PATH, mdbs>>

\* the lists of names a caller may pass to remove (the order of a list does
\* not matter to remove)
RemoveArgs ==
    {<<>>} \cup { <<n>> : n \in NameArgs }
           \cup { <<"apple", "banana">>, <<"apple", "">>, <<"banana", "">> }

\* the ids that can occur in either table
IdArgs == Names \cup { isoformat(t) : t \in 0..MaxClock }

\* the `food` argument of MealEntry at clock reading now: omitted, or a Food
InlineArgs(now) == {<<>>} \cup { <<f>> : f \in FoodArgs(now) }

\* the (name, food) pairs a caller passes to MealEntry: when both are given
\* the name is the food's, as in MealEntry.from_model
Supplied(name, fd) ==
    IF name = "" \/ fd = <<>> THEN TRUE ELSE fd[1].name = name

Next ==
    \/ Tick
    \/ Return
    \/ \E f \in FoodArgs(clock), update \in BOOLEAN : AddFood(f, update)
    \/ \E names \in RemoveArgs : Remove(names)
    \/ GetAllFoods
    \/ GetAllFoodNames
    \/ \E name \in NameArgs : GetFoodByName(name)
    \/ \E id_ \in IdArgs : GetFoodById(id_)
    \/ \E name \in NameArgs, portion \in PortionArgs,
          date \in DateArgs, fd \in InlineArgs(clock) :
            /\ Supplied(name, fd)
            /\ NewMealEntry(name, portion, date, fd)
    \/ AddMealEntry
    \/ DropEntry
    \/ \E start_date \in Dates, end_date \in Dates :
          GetEntriesBetweenDates(start_date, end_date)
    \/ \E time_stamp \in IdArgs : DeleteEntry(time_stamp)

Spec == Init /\ [][Next]_vars

(* ---------------------------- claims ----------------------------------- *)

\* some row of tbl is named n
Present(tbl, n) == \E i \in 1..Len(tbl) : tbl[i].name = n

\* some row of tbl named n has the id a stored meal entry refers to
Referenced(tbl, entries, n) ==
    \E i \in 1..Len(tbl) :
        /\ tbl[i].name = n
        /\ \E e \in 1..Len(entries) : entries[e].meal_id = tbl[i].id

\* C1: every stored meal entry's meal_id is the id of exactly one row of the
\* food table
C1_EntryResolvesToOneFood ==
    \A e \in 1..Len(meal_entries) :
        Cardinality({ i \in 1..Len(food) :
                        food[i].id = meal_entries[e].meal_id }) = 1

\* C2: remove(name) of a referenced name clears the name and keeps the number
\* of food rows; remove(name) of a present, unreferenced name takes exactly
\* one row away
C2_RemoveClearsOrDeletes ==
    [][\A n \in Names :
         Remove(<<n>>) =>
           IF Referenced(food, meal_entries, n)
             THEN Len(food') = Len(food) /\ ~Present(food', n)
           ELSE IF Present(food, n)
             THEN Len(food') = Len(food) - 1
           ELSE TRUE]_vars

\* C3: one remove(names) call is atomic: when it returns, no given name has
\* a row any more; when it fails, the food table is as it was before the call
C3_RemoveAtomic ==
    [][\A names \in RemoveArgs :
         Remove(names) =>
           IF ret'.exc = "none"
             THEN \A k \in 1..Len(names) :
                    names[k] # "" => ~Present(food', names[k])
           ELSE food' = food]_vars

\* what get_entries_between_dates shows for a date range covering every
\* entry: the exception, or per entry its id, consumed portion and nutrients
Shown(tbl, entries, now) ==
    LET r == get_entries_between_dates(tbl, entries, 1, MaxDate, now)
    IN  [exc |-> r.exc,
         val |-> [i \in 1..Len(r.val) |->
                    [id       |-> r.val[i].id,
                     portion  |-> r.val[i].portion,
                     proteins |-> r.val[i].food.proteins,
                     fats     |-> r.val[i].food.fats,
                     carbs    |-> r.val[i].food.carbs,
                     sugar    |-> r.val[i].food.sugar,
                     sodium   |-> r.val[i].food.sodium,
                     water    |-> r.val[i].food.water]]]

\* C4: after remove(name) of a food that stored meal entries refer to,
\* get_entries_between_dates shows what it showed before: the same entries,
\* each with the same consumed portion and the same scaled nutrients.  The
\* name ranges over every name a referenced food row can have, the empty
\* name of a nameless or soft-deleted row included.
C4_HistorySurvivesRemove ==
    [][\A n \in NameArgs :
         (Remove(<<n>>) /\ Referenced(food, meal_entries, n)) =>
            Shown(food', meal_entries', clock')
              = Shown(food, meal_entries, clock)]_vars

\* C4 for the foods the catalog lists: after remove(name) of a referenced
\* food with a non-empty name, get_entries_between_dates shows what it showed
\* before
C4_NamedHistorySurvivesRemove ==
    [][\A n \in Names :
         (Remove(<<n>>) /\ Referenced(food, meal_entries, n)) =>
            Shown(food', meal_entries', clock')
              = Shown(food, meal_entries, clock)]_vars

\* the food row holds the portion and nutrient values of the Food f
RowHolds(row, f) ==
    /\ row.name = f.name
    /\ row.portion = f.portion
    /\ row.protein = f.proteins
    /\ row.fats = f.fats
    /\ row.carbs = f.carbs
    /\ row.sugar = f.sugar
    /\ row.sodium = f.sodium
    /\ row.water = f.water

\* C5: add_food(food, update) inserts a row with food's values when the name
\* is absent, overwrites portion and nutrients in place when it is present
\* and update is true, and changes nothing when update is false
C5_AddFoodCases ==
    [][\A f \in FoodArgs(clock), update \in BOOLEAN :
         AddFood(f, update) =>
           LET hits == { i \in 1..Len(food) : food[i].name = f.name }
           IN  IF hits = {}
                 THEN /\ Len(food') = Len(food) + 1
                      /\ SubSeq(food', 1, Len(food)) = food
                      /\ RowHolds(food'[Len(food')], f)
               ELSE IF update
                 THEN /\ Len(food') = Len(food)
                      /\ \A i \in 1..Len(food) :
                           IF i \in hits THEN RowHolds(food'[i], f)
                           ELSE food'[i] = food[i]
               ELSE food' = food]_vars

\* C5 happens: add_food with update=True has just overwritten a row that
\* held other values, among other rows
C5_Witness ==
    /\ ret.op = "add_food" /\ ret.did = {"update"} /\ ret.arg[2]
    /\ Len(food) > 1
    /\ \E i \in 1..Len(food) :
         RowHolds(food[i], ret.arg[1]) /\ food[i].portion = 200

\* the Food g has the portion and nutrient values of the Food f
SameValues(g, f) ==
    /\ g.portion = f.portion
    /\ g.proteins = f.proteins
    /\ g.fats = f.fats
    /\ g.carbs = f.carbs
    /\ g.sugar = f.sugar
    /\ g.sodium = f.sodium
    /\ g.water = f.water

\* C6 as claimed: in every catalog state, add_food(food) followed by
\* get_food_by_name(food.name) returns food's portion and nutrients
C6_RoundTrip ==
    [][\A f \in FoodArgs(clock) :
         AddFood(f, FALSE) =>
           SameValues(get_food_by_name(food', f.name, clock'), f)]_vars

\* C6 as amended: add_food(food, update) followed by get_food_by_name
\* returns food's portion and nutrients when no row had the name before the
\* call or update is true
C6_RoundTripAmended ==
    [][\A f \in FoodArgs(clock), update \in BOOLEAN :
         (AddFood(f, update) /\ (update \/ ~Present(food, f.name))) =>
           SameValues(get_food_by_name(food', f.name, clock'), f)]_vars

\* C6 happens: add_food has just inserted a row for a new name and the
\* lookup of that name returns the values given
C6_Witness ==
    /\ ret.op = "add_food" /\ ret.did = {"insert"}
    /\ Len(food) > 1
    /\ ret.arg[1].sodium = 0
    /\ SameValues(get_food_by_name(food, ret.arg[1].name, clock), ret.arg[1])

\* the empty record a failed lookup returns
IsSentinel(f) ==
    /\ f.name = "" /\ f.portion = 0 /\ f.proteins = 0 /\ f.fats = 0
    /\ f.carbs = 0 /\ f.sugar = 0 /\ f.sodium = 0 /\ f.water = 0

\* C7: a lookup by a name or an id that no food row has returns the empty
\* record, raises nothing and leaves the food table unchanged
C7_LookupMiss ==
    /\ [](/\ ret.op = "get_food_by_name" /\ ~Present(food, ret.arg)
            => ret.exc = "none" /\ IsSentinel(ret.val)
          /\ (/\ ret.op = "get_food_by_id"
              /\ \A i \in 1..Len(food) : food[i].id # ret.arg)
            => ret.exc = "none" /\ IsSentinel(ret.val))
    /\ [][(\/ \E name \in NameArgs : GetFoodByName(name)
           \/ \E id_ \in IdArgs : GetFoodById(id_)) => food' = food]_vars

\* C7 happens: a lookup by name has just missed in a catalog that has rows
C7_Witness ==
    /\ ret.op = "get_food_by_name" /\ ret.arg # ""
    /\ food # <<>> /\ ~Present(food, ret.arg)
    /\ IsSentinel(ret.val)

\* the elements of a list
Range(seq) == { seq[i] : i \in 1..Len(seq) }

\* C8: get_all_foods and get_all_food_names return exactly the rows with a
\* non-empty name; after remove(names) none of the given names is returned
\* and every other named food still is
C8_ListedAfterRemove ==
    /\ [](/\ Range(get_all_food_names(food))
               = { food[i].name : i \in 1..Len(food) } \ {""}
          /\ { f.name : f \in Range(get_all_foods(food, clock)) }
               = { food[i].name : i \in 1..Len(food) } \ {""}
          /\ Len(get_all_foods(food, clock)) = Len(get_all_food_names(food)))
    /\ [][\A names \in RemoveArgs :
            Remove(names) =>
              /\ Range(names) \cap Range(get_all_food_names(food')) = {}
              /\ Range(get_all_food_names(food)) \ Range(names)
                   \subseteq Range(get_all_food_names(food'))]_vars

C10_NeitherNameNorFood ==
    [][\A portion \in PortionArgs, date \in DateArgs :
         NewMealEntry("", portion, date, <<>>) =>
           /\ ret'.exc = "AssertionError"
           /\ ret'.did = {}
           /\ entry' = <<>>
           /\ food' = food
           /\ meal_entries' = meal_entries]_vars

\* C10 happens: such a construction has just failed over non-empty tables
C10_Witness ==
    /\ ret.op = "MealEntry" /\ ret.exc = "AssertionError"
    /\ ret.arg[1] = "" /\ ret.arg[4] = <<>>
    /\ food # <<>> /\ meal_entries # <<>>

\* the presentation Food g shows the macros of the food row `row` for the
\* consumed portion p: M * (p / P) for proteins, carbs and fats
MacrosScaled(g, row, p) ==
    /\ g.proteins * row.portion = row.protein * p
    /\ g.carbs * row.portion = row.carbs * p
    /\ g.fats * row.portion = row.fats * p

\* the food row named n (name is the primary key: there is at most one)
RowNamed(tbl, n) == tbl[Min(Matching(tbl, "name", n))]

\* the record for the entry id_ among the records get_entries_between_dates
\* returned
RecordOf(val, id_) == val[Min({ k \in 1..Len(val) : val[k].id = id_ })]

\* C11: scaling law.  A MealEntry constructed by name for a food with
\* reference portion P > 0 shows each macro M as M * (P'/P); and once that
\* entry is stored, the record get_entries_between_dates reconstructs for
\* the stored row shows the same M * (P'/P)
C11_ScalingLaw ==
    /\ []((/\ ret.op = "MealEntry" /\ ret.exc = "none"
           /\ ret.did = {"lookup"}
           /\ Present(food, ret.arg[1])
           /\ RowNamed(food, ret.arg[1]).portion # 0)
            => MacrosScaled(entry[1].food, RowNamed(food, ret.arg[1]),
                            entry[1].portion))
    /\ [][(/\ AddMealEntry
           /\ ret.did = {"lookup"}
           /\ ret'.exc = "none"
           /\ Present(food, entry[1].name)
           /\ RowNamed(food, entry[1].name).portion # 0)
          => LET r == get_entries_between_dates(food', meal_entries', 1,
                                                MaxDate, clock')
             IN  r.exc = "none" =>
                   MacrosScaled(RecordOf(r.val, isoformat(clock)).food,
                                RowNamed(food, entry[1].name),
                                entry[1].portion)]_vars

\* no two food rows share an id
UniqueFoodIds(tbl) ==
    \A i, j \in 1..Len(tbl) : tbl[i].id = tbl[j].id => i = j

\* C11 while no two food rows share an id: the stored entry's record shows
\* M * (P'/P)
C11_ScalingLawUniqueIds ==
    [][(/\ AddMealEntry
        /\ ret.did = {"lookup"}
        /\ ret'.exc = "none"
        /\ UniqueFoodIds(food)
        /\ Present(food, entry[1].name)
        /\ RowNamed(food, entry[1].name).portion # 0)
       => LET r == get_entries_between_dates(food', meal_entries', 1,
                                             MaxDate, clock')
          IN  r.exc = "none" =>
                MacrosScaled(RecordOf(r.val, isoformat(clock)).food,
                             RowNamed(food, entry[1].name),
                             entry[1].portion)]_vars

\* the presentation Food g shows every nutrient of the food row `row` for
\* the consumed portion p: value * (p / P)
NutrientsScaled(g, row, p) ==
    /\ MacrosScaled(g, row, p)
    /\ g.sugar * row.portion = row.sugar * p
    /\ g.sodium * row.portion = row.sodium * p
    /\ g.water * row.portion = row.water * p

\* C12: when the consumed portion P' of a meal entry differs from the food's
\* reference portion P, each of proteins, fats, carbs, sugar, sodium and
\* water of the entry's presentation record is the catalog value times P'/P
C12_AllNutrientsScaled ==
    (/\ ret.op = "MealEntry" /\ ret.exc = "none"
     /\ ret.did = {"lookup"}
     /\ Present(food, ret.arg[1])
     /\ RowNamed(food, ret.arg[1]).portion # 0
     /\ entry[1].portion # RowNamed(food, ret.arg[1]).portion)
      => NutrientsScaled(entry[1].food, RowNamed(food, ret.arg[1]),
                         entry[1].portion)

\* C13: constructing a MealEntry by name, with any consumed portion, and
\* calling get_entries_between_dates leave the food table as it was: no row
\* changed, none added
C13_ReadOnlyCatalog ==
    [][(\/ \E name \in Names, portion \in PortionArgs, date \in DateArgs :
              NewMealEntry(name, portion, date, <<>>)
        \/ \E start_date \in Dates, end_date \in Dates :
              GetEntriesBetweenDates(start_date, end_date))
       => food' = food]_vars

\* C13, the construction by name alone
C13_ByNameReadOnly ==
    [][(\E name \in Names, portion \in PortionArgs, date \in DateArgs :
              NewMealEntry(name, portion, date, <<>>))
       => food' = food]_vars

\* the stored meal entries whose date d satisfies start_date <= d <= end_date
InRange(entries, start_date, end_date) ==
    { e \in 1..Len(entries) :
        start_date <= entries[e].date /\ entries[e].date <= end_date }

\* C14: get_entries_between_dates(start, end) returns, without failing,
\* exactly one record for each stored meal entry dated within start..end
\* (both inclusive) and no other record
C14_ExactlyEntriesInRange ==
    ret.op = "get_entries_between_dates" =>
      LET hit == InRange(meal_entries, ret.arg[1], ret.arg[2])
      IN  /\ ret.exc = "none"
          /\ Len(ret.val) = Cardinality(hit)
          /\ { ret.val[k].id : k \in 1..Len(ret.val) }
               = { meal_entries[e].id : e \in hit }
          /\ \A k \in 1..Len(ret.val) :
               ret.arg[1] <= ret.val[k].date /\ ret.val[k].date <= ret.arg[2]

(* ------------------- the meal-entry log over several days --------------- *)

\* in SpecDates the calendar days are 1..MaxDay, day 1 being the current one
MaxDay == 3

Days == 1..MaxDay

\* the `date` argument of MealEntry in SpecDates: a day, or omitted
DayArgs == Days \cup {None}

Max(S) == CHOOSE i \in S : \A j \in S : j <= i

\* utils.str2iso: the calendar date (a datetime.date) that the ISO string of
\* day s denotes
str2iso(s) == [date |-> s]

\* get_first_last_dates that takes the dates of the first and the last row
\* stored instead of the minimum and the maximum
get_first_last_dates_by_rowid(entries) ==
    IF entries = <<>>
      THEN <<str2iso(Today), str2iso(Today)>>
    ELSE <<str2iso(entries[1].date), str2iso(entries[Len(entries)].date)>>

\* MealEntryDB.get_first_last_dates
get_first_last_dates(entries) ==
    LET ds == { entries[e].date : e \in 1..Len(entries) }
    IN  IF ds = {}
          THEN <<str2iso(Today), str2iso(Today)>>
        ELSE <<str2iso(Min(ds)), str2iso(Max(ds))>>

\* mdb.get_first_last_dates()
GetFirstLastDates ==
    /\ Ready
    /\ ret' = Ret("get_first_last_dates", <<>>, "none",
                  get_first_last_dates(meal_entries), {})
    /\ UNCHANGED <<food, meal_entries, clock, entry, foods, sess, config,
                   atexit, stores, FOOD_DB_PATH, mdbs>>

\* the foods of SpecDates
DayFoods(now) == { f \in FoodArgs(now) : f.portion = 100 /\ f.name # "" }

\* a caller that fills the catalog, logs meals by name on any day, reads the
\* log by date range, asks for its first and last day, and deletes entries
NextDates ==
    \/ Tick
    \/ Return
    \/ \E f \in DayFoods(clock) : AddFood(f, FALSE)
    \/ \E name \in Names, portion \in PortionArgs, date \in DayArgs :
          NewMealEntry(name, portion, date, <<>>)
    \/ AddMealEntry
    \/ DropEntry
    \/ \E start_date \in Days, end_date \in Days :
          GetEntriesBetweenDates(start_date, end_date)
    \/ GetFirstLastDates
    \/ \E time_stamp \in IdArgs : DeleteEntry(time_stamp)

SpecDates == Init /\ [][NextDates]_vars

\* C15: add_meal_entry always succeeds: the entry is stored under an id
\* that no entry stored before has, whatever the clock reads
C15_FreshIdAlways ==
    [][AddMealEntry =>
         /\ ret'.exc = "none"
         /\ Len(meal_entries') = Len(meal_entries) + 1
         /\ SubSeq(meal_entries', 1, Len(meal_entries)) = meal_entries
         /\ \A e \in 1..Len(meal_entries) :
              meal_entries[e].id # meal_entries'[Len(meal_entries')].id]_vars

\* C16: stored meal entries carry no nutrient snapshot.  After
\* add_food(f, update=True) has overwritten the food row i, every entry
\* stored earlier for that food is returned by get_entries_between_dates
\* with the nutrients of the new row scaled by entry portion / new portion
C16_NoSnapshot ==
    [][\A f \in FoodArgs(clock), i \in 1..Len(food) :
         (/\ AddFood(f, TRUE)
          /\ ret'.did = {"update"}
          /\ i = Min(Matching(food, "name", f.name))
          /\ f.portion # 0)
         => LET r == get_entries_between_dates(food', meal_entries', 1,
                                               MaxDate, clock')
            IN  \A e \in 1..Len(meal_entries) :
                  (meal_entries[e].meal_id = food[i].id
                   /\ meal_entries[e].portion # 0) =>
                     /\ r.exc = "none"
                     /\ NutrientsScaled(
                          RecordOf(r.val, meal_entries[e].id).food,
                          food'[i], meal_entries[e].portion)]_vars

\* C16 for the macros (proteins, fats, carbs) of a named food whose id no
\* other row shares
C16_NoSnapshotMacros ==
    [][\A f \in FoodArgs(clock), i \in 1..Len(food) :
         (/\ AddFood(f, TRUE)
          /\ ret'.did = {"update"}
          /\ i = Min(Matching(food, "name", f.name))
          /\ f.name # ""
          /\ UniqueFoodIds(food)
          /\ f.portion # 0)
         => LET r == get_entries_between_dates(food', meal_entries', 1,
                                               MaxDate, clock')
            IN  \A e \in 1..Len(meal_entries) :
                  (meal_entries[e].meal_id = food[i].id
                   /\ meal_entries[e].portion # 0
                   /\ r.exc = "none") =>
                     MacrosScaled(
                          RecordOf(r.val, meal_entries[e].id).food,
                          food'[i], meal_entries[e].portion)]_vars

\* C17: get_first_last_dates returns the earliest and the latest date of the
\* stored meal entries as calendar dates; when no entry is stored it returns
\* today's date for both; it does not fail
C17_FirstLastDates ==
    ret.op = "get_first_last_dates" =>
      /\ ret.exc = "none"
      /\ IF meal_entries = <<>>
           THEN ret.val = <<[date |-> Today], [date |-> Today]>>
         ELSE /\ \E e \in 1..Len(meal_entries) :
                    ret.val[1] = [date |-> meal_entries[e].date]
              /\ \E e \in 1..Len(meal_entries) :
                    ret.val[2] = [date |-> meal_entries[e].date]
              /\ \A e \in 1..Len(meal_entries) :
                    /\ ret.val[1].date <= meal_entries[e].date
                    /\ meal_entries[e].date <= ret.val[2].date

\* C17 happens: the first and last dates have just been asked for over a log
\* whose later entry is dated before its earlier one
C17_Witness ==
    /\ ret.op = "get_first_last_dates"
    /\ Len(meal_entries) = 2
    /\ meal_entries[1].date > meal_entries[2].date
    /\ ret.val[1].date < ret.val[2].date

\* C18: delete_entry(id) removes the meal entry with that id and nothing
\* else: the other entries keep their values and their order, no food row
\* changes, and when no entry has the id nothing changes; it does not fail
C18_DeleteExactlyOne ==
    [][\A time_stamp \in IdArgs :
         DeleteEntry(time_stamp) =>
           LET hit  == { e \in 1..Len(meal_entries) :
                           meal_entries[e].id = time_stamp }
               kept == [e \in 1..Len(meal_entries') |->
                          IF hit # {} /\ e >= Min(hit) THEN e + 1 ELSE e]
           IN  /\ ret'.exc = "none"
               /\ food' = food
               /\ Cardinality(hit) <= 1
               /\ Len(meal_entries') = Len(meal_entries) - Cardinality(hit)
               /\ \A e \in 1..Len(meal_entries') :
                    meal_entries'[e] = meal_entries[kept[e]]]_vars

\* C18 happens: delete_entry has just removed the first of two stored
\* entries, over a non-empty food table
C18_Witness ==
    /\ ret.op = "delete_entry" /\ ret.did = {"delete"}
    /\ Len(meal_entries) = 1
    /\ meal_entries[1].id # ret.arg
    /\ meal_entries[1].id = isoformat(MaxClock)
    /\ food # <<>>

(***************************************************************************)
(* The external catalog: src/calorie_count/src/DB/external/client.py.      *)
(* Descriptions and search names are sequences of one-character strings,   *)
(* so that quote stripping, LIKE matching and the SequenceMatcher ratio    *)
(* are computed character by character.  The table `foods` is the sequence *)
(* of its rows in rowid order, the order in which a query without ORDER BY *)
(* over all columns returns them.                                          *)
(***************************************************************************)

\* the table holds at most this many rows in the model
MaxFoods == 3

\* the largest max_results argument
MaxResults == 3

apple == <<"a", "p", "p", "l", "e">>

apples == <<"a", "p", "p", "l", "e", "s">>

Apple == <<"A", "p", "p", "l", "e">>

quoted_apple == <<"\"", "a", "p", "p", "l", "e", "\"">>

\* descriptions a caller passes to FoodData(...)
Descriptions ==
    {apple, apples, Apple, <<"p", "e", "a", "r">>, quoted_apple}

\* names a caller searches for; the last holds the LIKE wildcard _
SearchNames == {apple, apples, Apple, <<"a", "p", "p", "l", "_">>}

\* the protein values a caller passes: two, to tell a first add from a later
Proteins == {1, 2}

\* str.replace('"', '')
RECURSIVE strip_quotes(_)
strip_quotes(s) ==
    IF s = <<>> THEN <<>>
    ELSE IF Head(s) = "\"" THEN strip_quotes(Tail(s))
    ELSE <<Head(s)>> \o strip_quotes(Tail(s))

\* FoodData(description, portions, protein, ...) with its __post_init__
FoodData(description, protein) ==
    [description |-> strip_quotes(description), portions |-> "cup:30",
     protein |-> protein, fats |-> 0, carbs |-> 0, sodium |-> 0,
     sugar |-> 0, water |-> 0]

\* FoodData.to_model(): the row holds the record's eight fields
FoodData_to_model(fd) == fd

\* FoodData.from_model(row): `or 0` leaves the numbers of the model as they
\* are, and __post_init__ strips quotes again
FoodData_from_model(row) ==
    [row EXCEPT !.description = strip_quotes(row.description)]

\* rows of the table whose description equals d (binary comparison)
ByDescription(tbl, d) == { i \in 1..Len(tbl) : tbl[i].description = d }

add_food_replacing(tbl, fd) ==
    IF ByDescription(tbl, fd.description) = {}
      THEN Append(tbl, FoodData_to_model(fd))
      ELSE [i \in 1..Len(tbl) |->
              IF tbl[i].description = fd.description THEN FoodData_to_model(fd)
              ELSE tbl[i]]

\* ExternalFoodsDB.add_food(food): insert only when no row has the description
ExternalFoodsDB_add_food(tbl, fd) ==
    IF ByDescription(tbl, fd.description) = {}
      THEN Append(tbl, FoodData_to_model(fd))
      ELSE tbl

\* SQLite folds the ASCII letters in LIKE; of the letters used here only "A"
Lower(c) == IF c = "A" THEN "a" ELSE c

\* SQLite's `text LIKE pattern`: % is any run of characters, _ any one
RECURSIVE Like(_, _)
Like(pattern, text) ==
    IF pattern = <<>> THEN text = <<>>
    ELSE IF Head(pattern) = "%"
      THEN \/ Like(Tail(pattern), text)
           \/ text # <<>> /\ Like(pattern, Tail(text))
    ELSE /\ text # <<>>
         /\ Head(pattern) = "_" \/ Lower(Head(pattern)) = Lower(Head(text))
         /\ Like(Tail(pattern), Tail(text))

\* length of the common run of a from i and b from j, inside a[..ahi], b[..bhi]
RECURSIVE RunLen(_, _, _, _, _, _)
RunLen(a, i, ahi, b, j, bhi) ==
    IF i > ahi \/ j > bhi \/ a[i] # b[j] THEN 0
    ELSE 1 + RunLen(a, i + 1, ahi, b, j + 1, bhi)

\* SequenceMatcher.find_longest_match: the longest common block of
\* a[alo..ahi] and b[blo..bhi], the earliest in a and then the earliest in b
find_longest_match(a, alo, ahi, b, blo, bhi) ==
    LET P == (alo..ahi) \X (blo..bhi)
        k == Max({ RunLen(a, p[1], ahi, b, p[2], bhi) : p \in P })
        i == Min({ p[1] : p \in { q \in P :
                                  RunLen(a, q[1], ahi, b, q[2], bhi) = k } })
        j == Min({ q \in blo..bhi : RunLen(a, i, ahi, b, q, bhi) = k })
    IN  <<i, j, k>>

\* SequenceMatcher.get_matching_blocks, summed: the number of matched
\* characters, found by splitting around the longest block
RECURSIVE Matched(_, _, _, _, _, _)
Matched(a, alo, ahi, b, blo, bhi) ==
    IF alo > ahi \/ blo > bhi THEN 0
    ELSE LET m == find_longest_match(a, alo, ahi, b, blo, bhi)
         IN  IF m[3] = 0 THEN 0
             ELSE m[3] + Matched(a, alo, m[1] - 1, b, blo, m[2] - 1)
                       + Matched(a, m[1] + m[3], ahi, b, m[2] + m[3], bhi)

\* similarity(a, b) >= 0.9, where similarity is SequenceMatcher.ratio(),
\* 2 * matched / (len(a) + len(b)), and 1.0 for two empty strings
similar(a, b) ==
    \/ Len(a) + Len(b) = 0
    \/ 20 * Matched(a, 1, Len(a), b, 1, Len(b)) >= 9 * (Len(a) + Len(b))

\* the first n elements of a sequence (LIMIT n)
Limit(s, n) == SubSeq(s, 1, IF Len(s) < n THEN Len(s) ELSE n)

\* first phase: rows whose description is LIKE %name%, at most max_results
like_phase(tbl, name, max_results) ==
    Limit(SelectSeq(tbl, LAMBDA r :
                      Like(<<"%">> \o name \o <<"%">>, r.description)),
          max_results)

\* second phase: all rows are scanned and those similar to name are kept;
\* the scan stops when the list has max_results - count rows.  The test
\* stands after the append, so a positive number of rows is asked for.
similar_phase(tbl, name, max_results, count) ==
    Limit(SelectSeq(tbl, LAMBDA r : similar(r.description, name)),
          max_results - count)

\* rows to records
Records(rows) == [i \in 1..Len(rows) |-> FoodData_from_model(rows[i])]

get_similar_food_by_name_unlimited(tbl, name, max_results) ==
    LET foods_ == like_phase(tbl, name, max_results)
        count == Len(foods_)
    IN  Records(foods_ \o
                (IF count < max_results
                   THEN SelectSeq(tbl, LAMBDA r : similar(r.description, name))
                   ELSE <<>>))

\* ExternalFoodsDB.get_similar_food_by_name(name, max_results), drained by
\* its caller: the records it yields, in order
get_similar_food_by_name(tbl, name, max_results) ==
    LET foods_ == like_phase(tbl, name, max_results)
        count == Len(foods_)
    IN  Records(foods_ \o
                (IF count < max_results
                   THEN similar_phase(tbl, name, max_results, count)
                   ELSE <<>>))

\* edb.add_food(FoodData(description, ..., protein, ...))
ExtAddFood(description, protein) ==
    /\ Ready
    /\ LET fd == FoodData(description, protein)
           t == ExternalFoodsDB_add_food(foods, fd)
       IN  /\ Len(t) <= MaxFoods
           /\ foods' = t
           /\ ret' = Ret("ext_add_food",
                         [description |-> description, protein |-> protein],
                         "none", <<>>,
                         IF t = foods THEN {} ELSE {"insert"})
    /\ UNCHANGED <<food, meal_entries, clock, entry, sess, config, atexit,
                   stores, FOOD_DB_PATH, mdbs>>

\* list(edb.get_similar_food_by_name(name, max_results))
GetSimilarFoodByName(name, max_results) ==
    /\ Ready
    /\ ret' = Ret("get_similar_food_by_name",
                  [name |-> name, max_results |-> max_results], "none",
                  get_similar_food_by_name(foods, name, max_results), {})
    /\ UNCHANGED <<food, meal_entries, clock, entry, foods, sess, config,
                   atexit, stores, FOOD_DB_PATH, mdbs>>

NextExternal ==
    \/ Return
    \/ \E d \in Descriptions, p \in Proteins : ExtAddFood(d, p)
    \/ \E n \in SearchNames, k \in 0..MaxResults : GetSimilarFoodByName(n, k)

\* the external catalog on its own
SpecExternal == Init /\ [][NextExternal]_vars

\* C19: ExternalFoodsDB.add_food is idempotent by description: the table
\* never holds two rows with one description; an add whose description,
\* quotes stripped, is present leaves the table as it is; an add whose
\* description is absent appends the record; and no add changes a row that
\* is there, so each row holds its first-added values.
C19_AddIdempotent ==
    /\ [](\A i, j \in 1..Len(foods) :
            foods[i].description = foods[j].description => i = j)
    /\ [][\A d \in Descriptions, p \in Proteins :
            ExtAddFood(d, p) =>
              /\ SubSeq(foods', 1, Len(foods)) = foods
              /\ IF ByDescription(foods, strip_quotes(d)) # {}
                   THEN foods' = foods
                   ELSE foods' = Append(foods, FoodData(d, p))]_vars

\* an add of a quoted description, with other values, found its stripped
\* description in the table and left the first-added row as it was
C19_Witness ==
    /\ ret.op = "ext_add_food"
    /\ ret.did = {}
    /\ ret.arg.description = quoted_apple
    /\ \E i \in 1..Len(foods) :
         /\ foods[i].description = apple
         /\ foods[i].protein # ret.arg.protein

\* C20: get_similar_food_by_name(name, max_results) yields at most
\* max_results records, substring matches and similarity matches counted
\* together, whatever the table holds and for every max_results >= 0.
C20_AtMostMaxResults ==
    ret.op = "get_similar_food_by_name" =>
        Len(ret.val) <= ret.arg.max_results

\* a search whose substring phase found fewer rows than asked for and whose
\* similarity scan was stopped with similar rows left over
C20_Witness ==
    /\ ret.op = "get_similar_food_by_name"
    /\ Len(ret.val) = ret.arg.max_results
    /\ LET count == Len(like_phase(foods, ret.arg.name, ret.arg.max_results))
       IN  /\ 0 < count
           /\ count < ret.arg.max_results
           /\ Len(SelectSeq(foods, LAMBDA r :
                              similar(r.description, ret.arg.name)))
                > ret.arg.max_results - count

\* s contains sub as a literal substring, letter case and all
Contains(s, sub) ==
    \E i \in 1..(Len(s) - Len(sub) + 1) :
        SubSeq(s, i, i + Len(sub) - 1) = sub

\* C21: the first phase of get_similar_food_by_name(name, max_results)
\* yields, in storage order and ahead of everything else, exactly the
\* first max_results records whose description contains name as a
\* case-sensitive literal substring.
C21_LiteralSubstringPhase ==
    ret.op = "get_similar_food_by_name" =>
        LET first == like_phase(foods, ret.arg.name, ret.arg.max_results)
            literal == Limit(SelectSeq(foods, LAMBDA r :
                               Contains(r.description, ret.arg.name)),
                             ret.arg.max_results)
        IN  /\ first = literal
            /\ SubSeq(ret.val, 1, Len(literal)) = Records(literal)

\* what does hold of the first phase: it yields, in storage order and ahead
\* of everything else, the first max_results records whose description is
\* LIKE %name%, and each literal match is among the LIKE matches
C21_LikePhase ==
    ret.op = "get_similar_food_by_name" =>
        LET first == like_phase(foods, ret.arg.name, ret.arg.max_results)
        IN  /\ SubSeq(ret.val, 1, Len(first)) = Records(first)
            /\ \A r \in Range(foods) :
                 Contains(r.description, ret.arg.name) =>
                   Like(<<"%">> \o ret.arg.name \o <<"%">>, r.description)

\* C22: no external record appears twice in one result sequence of
\* get_similar_food_by_name, also when its description both contains name
\* and is similar to it.  (A row is known by its description, the key.)
C22_NoRecordTwice ==
    ret.op = "get_similar_food_by_name" =>
        \A i, j \in 1..Len(ret.val) :
            ret.val[i].description = ret.val[j].description => i = j

\* what does hold: within each phase no record appears twice
C22_NoRecordTwiceInPhase ==
    ret.op = "get_similar_food_by_name" =>
        LET count == Len(like_phase(foods, ret.arg.name,
                                    ret.arg.max_results))
        IN  \A i, j \in 1..Len(ret.val) :
              /\ ret.val[i].description = ret.val[j].description
              /\ (i <= count) = (j <= count)
              => i = j

(***************************************************************************)
(* FoodData.portions_dict.  The portions field is a sequence of            *)
(* one-character strings over PortionChars, or None.  Of the characters    *)
(* used here float() accepts, after stripping, the non-empty runs of the   *)
(* digit alone.  A missing field (None) is NoPortions, which is no string  *)
(* of characters.                                                          *)
(***************************************************************************)

\* the longest portions string
MaxPortionsLen == 8

NoPortions == <<"None">>

PortionChars == {"c", ":", ",", " ", "3"}

\* every portions string of up to MaxPortionsLen characters, and the
\* missing field
PortionsArgs ==
    UNION { [1..k -> PortionChars] : k \in 0..MaxPortionsLen } \cup {NoPortions}

\* position of the first sep in s, 0 when there is none
RECURSIVE Find(_, _, _)
Find(s, sep, i) ==
    IF i > Len(s) THEN 0
    ELSE IF s[i] = sep THEN i
    ELSE Find(s, sep, i + 1)

\* str.split(sep): the pieces between the separators, at least one piece
RECURSIVE split(_, _)
split(s, sep) ==
    LET i == Find(s, sep, 1)
    IN  IF i = 0 THEN <<s>>
        ELSE <<SubSeq(s, 1, i - 1)>> \o split(SubSeq(s, i + 1, Len(s)), sep)

\* str.split(sep, 1): cut at the first separator only
split1(s, sep) ==
    LET i == Find(s, sep, 1)
    IN  IF i = 0 THEN <<s>>
        ELSE <<SubSeq(s, 1, i - 1), SubSeq(s, i + 1, Len(s))>>

\* str.strip(): leading and trailing blanks removed
RECURSIVE strip(_)
strip(s) ==
    IF s = <<>> THEN s
    ELSE IF Head(s) = " " THEN strip(Tail(s))
    ELSE IF s[Len(s)] = " " THEN strip(SubSeq(s, 1, Len(s) - 1))
    ELSE s

\* float(s) raises ValueError
ValueError(s) == s = <<>> \/ \E i \in 1..Len(s) : s[i] # "3"

\* float(s) for a run of digits
RECURSIVE float(_)
float(s) ==
    IF s = <<>> THEN 0
    ELSE 10 * float(SubSeq(s, 1, Len(s) - 1)) + 3

\* the loop of portions_dict over the items, result[key] = value overwriting
RECURSIVE portions_loop(_, _)
portions_loop(items, result) ==
    IF items = <<>> THEN result
    ELSE LET item == Head(items)
             kv == split1(item, ":")
         IN  IF Find(item, ":", 1) # 0 /\ ~ValueError(strip(kv[2]))
               THEN portions_loop(Tail(items),
                        (strip(kv[1]) :> float(strip(kv[2]))) @@ result)
               ELSE portions_loop(Tail(items), result)

portions_dict_first_wins(portions) ==
    IF portions = NoPortions \/ portions = <<>> THEN <<>>
    ELSE LET items == split(portions, ",")
         IN  portions_loop([i \in 1..Len(items) |->
                              items[Len(items) + 1 - i]], <<>>)

\* FoodData.portions_dict(): the mapping unit label -> grams
portions_dict(portions) ==
    IF portions = NoPortions \/ portions = <<>> THEN <<>>
    ELSE portions_loop(split(portions, ","), <<>>)

\* FoodData(..., portions = p, ...).portions_dict()
PortionsDict(p) ==
    /\ Ready
    /\ ret' = Ret("portions_dict", p, "none", portions_dict(p), {})
    /\ UNCHANGED <<food, meal_entries, clock, entry, foods, sess, config,
                   atexit, stores, FOOD_DB_PATH, mdbs>>

NextPortions ==
    \/ Return
    \/ Ready /\ \E p \in PortionsArgs : PortionsDict(p)

\* portions parsing on its own
SpecPortions == Init /\ [][NextPortions]_vars

\* the segments of s between commas, as pairs <<first, last>> of positions
Segments(s) ==
    LET starts == {1} \cup { i + 1 : i \in { j \in 1..Len(s) : s[j] = "," } }
    IN  { <<a, Min({ j \in a..(Len(s) + 1) :
                      j = Len(s) + 1 \/ s[j] = "," }) - 1>> : a \in starts }

\* a segment with a colon and, after its first colon, one unbroken run of
\* digits with nothing but blanks around it
Valid(s, sg) ==
    LET C == { i \in sg[1]..sg[2] : s[i] = ":" }
    IN  /\ C # {}
        /\ LET D == { i \in (Min(C) + 1)..sg[2] : s[i] # " " }
           IN  /\ D # {}
               /\ \A i \in Min(D)..Max(D) : s[i] = "3"

\* the unit label of a valid segment: before its first colon, trimmed
Label(s, sg) ==
    LET c == Min({ i \in sg[1]..sg[2] : s[i] = ":" })
    IN  strip(SubSeq(s, sg[1], c - 1))

\* the number of digits of a valid segment's value
Digits(s, sg) ==
    LET c == Min({ i \in sg[1]..sg[2] : s[i] = ":" })
    IN  Cardinality({ i \in (c + 1)..sg[2] : s[i] = "3" })

\* C23: portions_dict never fails; its mapping holds exactly the labels of
\* the comma-separated segments that have a colon and a numeric value after
\* it, each label trimmed and carrying the value of its last such segment;
\* every other segment is skipped; an empty or missing field gives the
\* empty mapping.
C23_PortionsDict ==
    ret.op = "portions_dict" =>
        /\ ret.exc = "none"
        /\ IF ret.arg = NoPortions \/ ret.arg = <<>> THEN ret.val = <<>>
           ELSE LET s == ret.arg
                    V == { sg \in Segments(s) : Valid(s, sg) }
                IN  /\ DOMAIN ret.val = { Label(s, sg) : sg \in V }
                    /\ \A sg \in V :
                         (\A o \in V : Label(s, o) = Label(s, sg)
                                         => o[1] <= sg[1])
                         => ret.val[Label(s, sg)]
                              = float([i \in 1..Digits(s, sg) |-> "3"])

\* the parse of 'c:3,c:33' kept the last of the two values of the label c
C23_Witness ==
    /\ ret.op = "portions_dict"
    /\ ret.arg = <<"c", ":", "3", ",", "c", ":", "3", "3">>
    /\ ret.val = (<<"c">> :> 33)

(***************************************************************************)
(* Sessions: __enter__, __exit__ and the session property, which read the  *)
(* same in FoodDB, MealEntryDB and ExternalFoodsDB.  get_session returns a *)
(* new Session at every call.                                              *)
(***************************************************************************)

\* an object acquires at most this many sessions in the model
MaxSessions == 3

\* with-blocks on one object nest at most this deep in the model
MaxBlocks == 2

\* self._session = get_session(self.db_path): a new session, now current
Acquire(o) ==
    [o EXCEPT !.acquired = Append(@, "open"),
              !.session = Len(o.acquired) + 1]

\* o.__enter__(): the attribute is overwritten, whatever it held
enter(o) == [Acquire(o) EXCEPT !.blocks = @ + 1]

\* o.__exit__(*a): the current session, if there is one, is closed and
\* forgotten; the arguments (the exception, if any) are not looked at
exit(o) ==
    [o EXCEPT !.acquired = IF o.session # 0
                             THEN [@ EXCEPT ![o.session] = "closed"]
                             ELSE @,
              !.session = 0,
              !.blocks = @ - 1]

\* o.session: the current session, a new one if there is none
session(o) == IF o.session = 0 THEN Acquire(o) ELSE o

\* `with obj:` is entered
Enter(c) ==
    /\ Ready
    /\ sess[c].blocks < MaxBlocks
    /\ Len(sess[c].acquired) < MaxSessions
    /\ sess' = [sess EXCEPT ![c] = enter(@)]
    /\ ret' = Ret("__enter__", c, "none", <<>>, {})
    /\ UNCHANGED <<food, meal_entries, clock, entry, foods, config, atexit,
                   stores, FOOD_DB_PATH, mdbs>>

\* a with-block on obj is left, normally or through an exception
Exit(c, raised) ==
    /\ Ready
    /\ sess[c].blocks > 0
    /\ sess' = [sess EXCEPT ![c] = exit(@)]
    /\ ret' = Ret("__exit__", c, IF raised THEN "Exception" ELSE "none",
                  <<>>, {})
    /\ UNCHANGED <<food, meal_entries, clock, entry, foods, config, atexit,
                   stores, FOOD_DB_PATH, mdbs>>

\* a method of obj reads self.session, inside a with-block or outside
UseSession(c) ==
    /\ Ready
    /\ sess[c].session # 0 \/ Len(sess[c].acquired) < MaxSessions
    /\ sess' = [sess EXCEPT ![c] = session(@)]
    /\ ret' = Ret("session", c, "none", <<>>, {})
    /\ UNCHANGED <<food, meal_entries, clock, entry, foods, config, atexit,
                   stores, FOOD_DB_PATH, mdbs>>

NextSessions ==
    \/ Return
    \/ \E c \in Classes : Enter(c)
    \/ \E c \in Classes, raised \in BOOLEAN : Exit(c, raised)
    \/ \E c \in Classes : UseSession(c)

\* the session handling on its own
SpecSessions == Init /\ [][NextSessions]_vars

\* C24: when a with-block on an object has exited, normally or through an
\* exception, and the object is inside no other with-block, every session
\* the object has acquired, by __enter__ or by the session property, is
\* closed.
C24_AllClosedOnExit ==
    [][\A c \in Classes, raised \in BOOLEAN :
         (Exit(c, raised) /\ sess'[c].blocks = 0) =>
           \A i \in 1..Len(sess'[c].acquired) :
               sess'[c].acquired[i] = "closed"]_vars

\* what does hold: the session the object holds when the block exits is
\* closed and forgotten, so a block entered with every earlier session
\* closed and holding no block inside it leaves every session closed
C24_CurrentClosedOnExit ==
    [][\A c \in Classes, raised \in BOOLEAN :
         Exit(c, raised) =>
           /\ sess'[c].session = 0
           /\ \A i \in 1..Len(sess[c].acquired) :
                sess'[c].acquired[i] =
                  (IF i = sess[c].session THEN "closed"
                   ELSE sess[c].acquired[i])]_vars

(***************************************************************************)
(* plot_pie_chart, in calorie_count/src/utils/plotting.py and in           *)
(* calory-count/plotting.py.  Quantities are integers; the percentages    *)
(* are binary floating-point numbers, every operation rounding its exact   *)
(* result to the nearest number of FloatBits significant bits, ties to     *)
(* even, as Python's float does with 53 bits.  A float is <<m, e>>,        *)
(* standing for m * 2^e, with 2^(FloatBits-1) <= |m| < 2^FloatBits, or     *)
(* <<0, 0>>.  The mapping is the sequence of its quantities in insertion   *)
(* order.                                                                  *)
(***************************************************************************)

\* significant bits of a float in the model
FloatBits == 10

\* the largest quantity of a slice
MaxQuantity == 3

\* the largest number of slices
MaxSlices == 3

RECURSIVE Pow2(_)
Pow2(n) == IF n = 0 THEN 1 ELSE 2 * Pow2(n - 1)

Abs(x) == IF x < 0 THEN -x ELSE x

\* the exact quotient n / d (d > 0) rounded to a float, e being the exponent
\* tried so far
RECURSIVE RoundQ(_, _, _)
RoundQ(n, d, e) ==
    IF n = 0 THEN <<0, 0>>
    ELSE IF Abs(n) < d * Pow2(FloatBits - 1) THEN RoundQ(2 * n, d, e - 1)
    ELSE IF Abs(n) >= d * Pow2(FloatBits) THEN RoundQ(n, 2 * d, e + 1)
    ELSE LET q == Abs(n) \div d
             r == Abs(n) % d
             up == 2 * r > d \/ (2 * r = d /\ q % 2 = 1)
             m == IF up THEN q + 1 ELSE q
             s == IF n < 0 THEN -1 ELSE 1
         IN  IF m = Pow2(FloatBits) THEN <<s * Pow2(FloatBits - 1), e + 1>>
             ELSE <<s * m, e>>

\* numerator and denominator of the number a float stands for
Num(x) == IF x[2] >= 0 THEN x[1] * Pow2(x[2]) ELSE x[1]

Den(x) == IF x[2] >= 0 THEN 1 ELSE Pow2(-x[2])

\* float(n) for a small integer
Float(n) == RoundQ(n, 1, 0)

\* x / y, x * y, x + y, x - y on floats
FDiv(x, y) ==
    IF Num(y) > 0 THEN RoundQ(Num(x) * Den(y), Den(x) * Num(y), 0)
    ELSE RoundQ(-Num(x) * Den(y), Den(x) * (-Num(y)), 0)

FMul(x, y) == RoundQ(Num(x) * Num(y), Den(x) * Den(y), 0)

FAdd(x, y) == RoundQ(Num(x) * Den(y) + Num(y) * Den(x), Den(x) * Den(y), 0)

FSub(x, y) == FAdd(x, <<-y[1], y[2]>>)

\* sum(values) of floats, left to right from 0
RECURSIVE FSum(_)
FSum(values) ==
    IF values = <<>> THEN <<0, 0>>
    ELSE FAdd(FSum(SubSeq(values, 1, Len(values) - 1)), values[Len(values)])

\* sum(data.values()) of the integer quantities
RECURSIVE sum(_)
sum(values) == IF values = <<>> THEN 0 ELSE Head(values) + sum(Tail(values))

\* {k: (v / sum_) * 100 for k, v in data.items()}
Percents(data, sum_) ==
    [i \in 1..Len(data) |->
        FMul(FDiv(Float(data[i]), Float(sum_)), Float(100))]

\* the pie mappings a caller passes: quantities in insertion order
PieData == UNION { [1..k -> 0..MaxQuantity] : k \in 0..MaxSlices }

\* calorie_count/src/utils/plotting.py plot_pie_chart: the values handed to
\* ax.pie; [100] labelled "No Data" when the quantities sum to zero
plot_pie_chart(data) ==
    LET sum_ == sum(data)
    IN  IF sum_ = 0
          THEN [exc |-> "none", labels |-> <<"No Data">>,
                values |-> <<Float(100)>>]
          ELSE [exc |-> "none", labels |-> <<>>,
                values |-> Percents(data, sum_)]

\* calory-count/plotting.py plot_pie_chart: the mapping handed to AKPieChart,
\* the last value taking the leftover
calory_count_plot_pie_chart(data) ==
    LET sum_values == sum(data)
    IN  IF data = <<>>
          THEN [exc |-> "IndexError", labels |-> <<>>, values |-> <<>>]
        ELSE IF sum_values = 0
          THEN [exc |-> "ZeroDivisionError", labels |-> <<>>,
                values |-> <<>>]
        ELSE LET d == Percents(data, sum_values)
                 leftover == FSub(Float(100), FSum(d))
             IN  [exc |-> "none", labels |-> <<>>,
                  values |-> [d EXCEPT ![Len(d)] = FAdd(@, leftover)]]

\* utils.plotting.plot_pie_chart(data)
PlotPieChart(data) ==
    /\ Ready
    /\ LET r == plot_pie_chart(data)
       IN  ret' = Ret("plot_pie_chart", data, r.exc, r.values, {})
    /\ UNCHANGED <<food, meal_entries, clock, entry, foods, sess, config,
                   atexit, stores, FOOD_DB_PATH, mdbs>>

\* calory-count's plotting.plot_pie_chart(data)
CaloryCountPlotPieChart(data) ==
    /\ Ready
    /\ LET r == calory_count_plot_pie_chart(data)
       IN  ret' = Ret("calory_count_plot_pie_chart", data, r.exc, r.values, {})
    /\ UNCHANGED <<food, meal_entries, clock, entry, foods, sess, config,
                   atexit, stores, FOOD_DB_PATH, mdbs>>

NextPlotting ==
    \/ Return
    \/ \E data \in PieData : PlotPieChart(data)
    \/ \E data \in PieData : CaloryCountPlotPieChart(data)

\* the pie chart on its own
SpecPlotting == Init /\ [][NextPlotting]_vars

\* C25: plot_pie_chart does not fail, also for a mapping whose quantities
\* sum to zero and for the empty mapping, and the percentages it produces
\* sum to exactly 100.
C25_PercentagesSumTo100 ==
    ret.op \in {"plot_pie_chart", "calory_count_plot_pie_chart"} =>
        /\ ret.exc = "none"
        /\ FSum(ret.val) = Float(100)

\* what does hold of calorie_count/src/utils/plotting.py: it never fails
C25_NoFailure ==
    ret.op = "plot_pie_chart" => ret.exc = "none"

\* what does hold of calory-count/plotting.py: when the quantities do not
\* sum to zero, the values sum to exactly 100 after the last one has taken
\* the leftover
C25_LeftoverAbsorbed ==
    (ret.op = "calory_count_plot_pie_chart" /\ sum(ret.arg) # 0) =>
        /\ ret.exc = "none"
        /\ FSum(ret.val) = Float(100)

\* utils/plotting.py has produced percentages that do not sum to 100
C25_Witness ==
    /\ ret.op = "plot_pie_chart"
    /\ ret.arg = <<1, 2>>
    /\ FSum(ret.val) # Float(100)

\* C26: remove(names) completes without a storage error for any list of
\* names, however many of the named foods are referenced by meal entries
\* and whether or not a row with empty name is in the food table.
C26_RemoveNeverFails ==
    ret.op = "remove" => ret.exc = "none"

\* what does hold: remove fails only when it clears a name while a row with
\* empty name is there, or clears more than one name in one call
C26_RemoveFailsOnlyOnEmptyName ==
    [][\A names \in RemoveArgs :
         (Remove(names) /\ ret'.exc # "none") =>
           /\ ret'.exc = "IntegrityError"
           /\ LET cleared == { n \in Range(names) \ {""} :
                                 Referenced(food, meal_entries, n) }
              IN  \/ cleared # {} /\ \E r \in Range(food') : r.name = ""
                  \/ Cardinality(cleared) > 1]_vars

\* the number of rows of tbl with the given id
RowsWithId(tbl, id_) == Cardinality({ i \in 1..Len(tbl) : tbl[i].id = id_ })

\* C27: remove never deletes a food row whose id is the meal_id of a stored
\* meal entry, whatever its argument: every id a meal entry refers to has
\* as many rows after the call as before.
C27_ReferencedRowsKept ==
    [][\A names \in RemoveArgs :
         Remove(names) =>
           \A e \in 1..Len(meal_entries) :
               RowsWithId(food', meal_entries[e].meal_id)
                 = RowsWithId(food, meal_entries[e].meal_id)]_vars

\* what does hold: a referenced row with a non-empty name is never deleted
C27_NamedReferencedRowsKept ==
    [][\A names \in RemoveArgs :
         Remove(names) =>
           \A i \in 1..Len(food) :
               (/\ food[i].name # ""
                /\ \E e \in 1..Len(meal_entries) :
                     meal_entries[e].meal_id = food[i].id)
               => \E j \in 1..Len(food') :
                    food'[j] = food[i] \/
                    food'[j] = [food[i] EXCEPT !.name = ""]]_vars

\* C28: in every reachable state no two food rows share an id, so a
\* meal_id resolves to at most one row.
C28_FoodIdsUnique ==
    /\ UniqueFoodIds(food)
    /\ \A e \in 1..Len(meal_entries) :
         RowsWithId(food, meal_entries[e].meal_id) <= 1

\* what does hold: two rows share an id only when one of them has had its
\* name cleared; the rows with a non-empty name have distinct ids
C28_NamedFoodIdsUnique ==
    \A i, j \in 1..Len(food) :
        (food[i].id = food[j].id /\ food[i].name # "" /\ food[j].name # "")
        => i = j

(***************************************************************************)
(* The settings file: src/calorie_count/src/utils/config.py.               *)
(***************************************************************************)

\* the values a caller passes to set_theme
ThemeArgs == {"Dark", "Light"} \X {"Teal", "Red"} \X {"BlueGray", "Amber"}

\* set_theme: the file is read, the THEME section replaced, all written back
set_theme(cfg, theme_style, accent_palette, primary_palette) ==
    [cfg EXCEPT !.THEME = <<[theme_style     |-> theme_style,
                             primary_palette |-> primary_palette,
                             accent_palette  |-> accent_palette]>>]

\* get_theme: the stored values, or the defaults
get_theme(cfg) ==
    IF cfg.THEME = <<>> THEN <<"Dark", "Teal", "BlueGray">>
    ELSE <<cfg.THEME[1].theme_style, cfg.THEME[1].accent_palette,
           cfg.THEME[1].primary_palette>>

\* get_db_path: the stored path, or the fallback "Dark"
get_db_path(cfg) == IF cfg.DB_PATH = <<>> THEN "Dark" ELSE cfg.DB_PATH[1]

\* _set_db_path: a new parser, which has not read the file, gets the
\* DB_PATH section and is written over the file
set_db_path(cfg, path) == [THEME |-> <<>>, DB_PATH |-> <<path>>]

\* config.set_theme(theme_style, accent_palette, primary_palette)
SetTheme(theme_style, accent_palette, primary_palette) ==
    /\ Ready
    /\ config' = set_theme(config, theme_style, accent_palette,
                           primary_palette)
    /\ ret' = Ret("set_theme",
                  <<theme_style, accent_palette, primary_palette>>,
                  "none", <<>>, {})
    /\ UNCHANGED <<food, meal_entries, clock, entry, foods, sess, atexit,
                   stores, FOOD_DB_PATH, mdbs>>

\* config.get_theme()
GetTheme ==
    /\ Ready
    /\ ret' = Ret("get_theme", <<>>, "none", get_theme(config), {})
    /\ UNCHANGED <<food, meal_entries, clock, entry, foods, sess, config,
                   atexit, stores, FOOD_DB_PATH, mdbs>>

\* config.get_db_path()
GetDbPath ==
    /\ Ready
    /\ ret' = Ret("get_db_path", <<>>, "none", <<get_db_path(config)>>, {})
    /\ UNCHANGED <<food, meal_entries, clock, entry, foods, sess, config,
                   atexit, stores, FOOD_DB_PATH, mdbs>>

\* config._set_db_path(path)
SetDbPath(path) ==
    /\ Ready
    /\ config' = set_db_path(config, path)
    /\ ret' = Ret("_set_db_path", path, "none", <<>>, {})
    /\ UNCHANGED <<food, meal_entries, clock, entry, foods, sess, atexit,
                   stores, FOOD_DB_PATH, mdbs>>

\* config.set_db_path_test(): the path of a test database is stored and a
\* handler registered for the end of the run
SetDbPathTest ==
    /\ Ready
    /\ config' = set_db_path(config, "test.db")
    /\ atexit' = atexit \cup {"test.db"}
    /\ ret' = Ret("set_db_path_test", <<>>, "none", <<"test.db">>, {})
    /\ UNCHANGED <<food, meal_entries, clock, entry, foods, sess, stores,
                   FOOD_DB_PATH, mdbs>>

\* the run ends: the handlers _at_exit remove their test databases and set
\* the default path; the objects of the run are gone, the files stay
AtExit ==
    /\ Ready
    /\ atexit # {}
    /\ config' = set_db_path(config, "calorie_app.db")
    /\ stores' = [p \in DbPaths |->
                    IF p \in atexit THEN EmptyStores[p] ELSE stores[p]]
    /\ atexit' = {}
    /\ sess' = NoSessions
    /\ FOOD_DB_PATH' = <<>>
    /\ mdbs' = {}
    /\ ret' = Ret("_at_exit", <<>>, "none", <<>>, {})
    /\ UNCHANGED <<food, meal_entries, clock, entry, foods>>

NextConfig ==
    \/ Return
    \/ \E t \in ThemeArgs : SetTheme(t[1], t[2], t[3])
    \/ GetTheme
    \/ GetDbPath
    \/ \E path \in DbPaths : SetDbPath(path)
    \/ SetDbPathTest
    \/ AtExit

\* the settings file on its own
SpecConfig == Init /\ [][NextConfig]_vars

\* C30: writing one section of the settings file leaves the other as it
\* is: set_theme keeps the stored database path, and _set_db_path and
\* set_db_path_test keep the three stored theme values.
C30_OtherSectionKept ==
    [][/\ (\E t \in ThemeArgs : SetTheme(t[1], t[2], t[3]))
          => config'.DB_PATH = config.DB_PATH
       /\ ((\E path \in DbPaths : SetDbPath(path)) \/ SetDbPathTest)
          => config'.THEME = config.THEME]_vars

\* what does hold: set_theme keeps the stored database path
C30_SetThemeKeepsDbPath ==
    [][(\E t \in ThemeArgs : SetTheme(t[1], t[2], t[3]))
       => /\ config'.DB_PATH = config.DB_PATH
          /\ get_db_path(config') = get_db_path(config)]_vars

(***************************************************************************)
(* Database paths.  A MealEntryDB object is known by its db_path; the      *)
(* objects created are `mdbs`.  MealEntry.FOOD_DB_PATH is a field of the   *)
(* dataclass with default None and, after MealEntryDB.__init__, also an    *)
(* attribute of the class.                                                 *)
(***************************************************************************)

\* the two database files a caller works with here
UsedPaths == {"Dark", "test.db"}

\* the db_path argument: omitted (<<>>) or a path
PathArgs == {<<>>} \cup { <<p>> : p \in UsedPaths }

\* the food a caller puts into a catalog
PathFoods(now) ==
    { f \in FoodArgs(now) : f.portion = 100 /\ f.name = "apple" }

\* the (name, food) arguments of MealEntry: a name to look up, or an
\* unnamed food to register
EntryArgs(now) ==
    {<<"apple", <<>>>>}
      \cup { <<"", <<f>>>> : f \in { g \in FoodArgs(now) : g.name = "" } }

\* `db_path or config.get_db_path()`
or_get_db_path(db_path, cfg) ==
    IF db_path = <<>> THEN get_db_path(cfg) ELSE db_path[1]

\* self.FOOD_DB_PATH inside __post_init__: the generated __init__ has
\* assigned the field's default, None, to the instance (no caller passes
\* the argument), which hides the attribute of the class
instance_FOOD_DB_PATH(class_attribute) == <<>>

\* mdb = MealEntryDB(db_path)
NewMealEntryDB(db_path) ==
    /\ Ready
    /\ LET p == or_get_db_path(db_path, config)
       IN  /\ FOOD_DB_PATH' = <<p>>
           /\ mdbs' = mdbs \cup {p}
           /\ ret' = Ret("MealEntryDB", db_path, "none", <<p>>, {})
    /\ UNCHANGED <<food, meal_entries, clock, entry, foods, sess, config,
                   atexit, stores>>

\* FoodDB(db_path).add_food(f)
PathAddFood(db_path, f) ==
    /\ Ready
    /\ LET p == or_get_db_path(db_path, config)
           r == add_food(stores[p].food, f, FALSE)
       IN  /\ stores' = [stores EXCEPT ![p].food = r.food]
           /\ ret' = Ret("add_food", <<db_path, f>>, "none", <<p>>, r.did)
    /\ UNCHANGED <<food, meal_entries, clock, entry, foods, sess, config,
                   atexit, FOOD_DB_PATH, mdbs>>

\* entry = MealEntry(name=..., food=...) once a MealEntryDB exists:
\* __post_init__ opens FoodDB(self.FOOD_DB_PATH); the result names the
\* database whose food table it worked on
PathNewMealEntry(name, fd) ==
    /\ Ready
    /\ mdbs # {}
    /\ LET p == or_get_db_path(instance_FOOD_DB_PATH(FOOD_DB_PATH), config)
           r == MealEntry(stores[p].food, name, None, None, fd, "", clock)
       IN  /\ stores' = [stores EXCEPT ![p].food = r.food]
           /\ entry' = r.self
           /\ ret' = Ret("MealEntry", <<name, fd>>, r.exc, <<p>>, r.path)
    /\ UNCHANGED <<food, meal_entries, clock, foods, sess, config, atexit,
                   FOOD_DB_PATH, mdbs>>

\* mdb.add_meal_entry(entry) on the MealEntryDB object with path p
PathAddMealEntry(p) ==
    /\ entry # <<>>
    /\ p \in mdbs
    /\ LET r == add_meal_entry(stores[p].meal_entries, entry[1], clock)
       IN  /\ stores' = [stores EXCEPT ![p].meal_entries = r.meal_entries]
           /\ ret' = Ret("add_meal_entry", <<p, entry[1]>>, r.exc, <<>>, {})
    /\ entry' = <<>>
    /\ UNCHANGED <<food, meal_entries, clock, foods, sess, config, atexit,
                   FOOD_DB_PATH, mdbs>>

NextPaths ==
    \/ Return
    \/ \E path \in UsedPaths : SetDbPath(path)
    \/ \E db_path \in PathArgs : NewMealEntryDB(db_path)
    \/ \E db_path \in PathArgs, f \in PathFoods(clock) :
         PathAddFood(db_path, f)
    \/ \E a \in EntryArgs(clock) : PathNewMealEntry(a[1], a[2])
    \/ \E p \in DbPaths : PathAddMealEntry(p)
    \/ DropEntry

\* several databases
SpecPaths == Init /\ [][NextPaths]_vars

\* C29: a MealEntry constructed after MealEntryDB(db_path=P) was created
\* resolves or registers its food in the food table of database P and of
\* no other database, and P is the database its row is then stored in.
C29_FoodResolvedInSameDatabase ==
    [][/\ \A a \in EntryArgs(clock) :
            PathNewMealEntry(a[1], a[2]) =>
              /\ ret'.val = FOOD_DB_PATH
              /\ \A p \in DbPaths \ {FOOD_DB_PATH[1]} : stores'[p] = stores[p]
       /\ \A p \in DbPaths : PathAddMealEntry(p) => ret.val = <<p>>]_vars

\* what does hold: the MealEntry works on the food table of the database
\* the settings file names at that moment
C29_FoodResolvedInConfiguredDatabase ==
    [][\A a \in EntryArgs(clock) :
         PathNewMealEntry(a[1], a[2]) =>
           /\ ret'.val = <<get_db_path(config)>>
           /\ \A p \in DbPaths \ {get_db_path(config)} :
                stores'[p] = stores[p]]_vars

====
